---- MODULE Spec2Model ----
(***************************************************************************)
(* Model of source/noisy_average.cpp: the record parser, the builder of    *)
(* the three leave-one-out dataset variants, the Laplace sampler, the      *)
(* analysis of one dataset and the driver (main) that runs them in order.  *)
(*                                                                         *)
(* A text line is a sequence of one-character strings.  A file is a        *)
(* record [exists, lines].  A rational is a record [num, den]; the         *)
(* floating-point rounding of the quotients is not modelled.  A noise      *)
(* value is kept symbolic: the branch of the inverse CDF that produced     *)
(* it, the scale and the argument of the logarithm.                        *)
(***************************************************************************)
EXTENDS Integers, Sequences, FiniteSets, TLC

(***************************************************************************)
(* Bounds of the model.                                                    *)
(***************************************************************************)
MaxBuildLines == 4
MaxLines == 2
MaxTrials == 2
NumSeeds == 2
UDen == 4
MaxRuns == 2

(***************************************************************************)
(* Program constants.                                                      *)
(***************************************************************************)
INT_MAX == 2147483647
INT_MIN == (-2147483647) - 1
AgeThreshold == 25
RemovedAge == 26
EpsilonNum == 1
EpsilonDen == 2
ExitOk == 0
ExitNoDir == 2

(***************************************************************************)
(* Paths inside the data directory.                                        *)
(***************************************************************************)
InputPath == "adult.data"
OldestPath == "adult_minus_oldest.data"
Age26Path == "adult_minus_age26.data"
YoungestPath == "adult_minus_youngest.data"
VariantPaths == {OldestPath, Age26Path, YoungestPath}
AnalysisInputs == <<InputPath, OldestPath, Age26Path, YoungestPath>>
AnalysisOutputs ==
    <<"noisy_results_original.txt", "noisy_results_minus_oldest.txt",
      "noisy_results_minus_age26.txt", "noisy_results_minus_youngest.txt">>
OutputPaths == {AnalysisOutputs[k] : k \in 1..4}
Paths == {InputPath} \cup VariantPaths \cup OutputPaths

NoFile == [exists |-> FALSE, lines |-> <<>>]
FileOf(ls) == [exists |-> TRUE, lines |-> ls]

(***************************************************************************)
(* Trim helpers.                                                           *)
(***************************************************************************)
IsSpace(c) == c \in {" ", "\t", "\n", "\r", "\f"}

RECURSIVE ltrim(_)
ltrim(s) == IF s # <<>> /\ IsSpace(Head(s)) THEN ltrim(Tail(s)) ELSE s

RECURSIVE rtrim(_)
rtrim(s) ==
    IF s # <<>> /\ IsSpace(s[Len(s)]) THEN rtrim(SubSeq(s, 1, Len(s) - 1)) ELSE s

trim(s) == ltrim(rtrim(s))

(***************************************************************************)
(* getline(ss, token, ','): the characters before the first comma.         *)
(***************************************************************************)
RECURSIVE getline_comma(_)
getline_comma(t) ==
    IF t = <<>> \/ Head(t) = "," THEN <<>>
    ELSE <<Head(t)>> \o getline_comma(Tail(t))

(***************************************************************************)
(* std::stoi: leading white space, an optional sign, then the longest run  *)
(* of decimal digits; what follows the digits is ignored.  No digit, or a  *)
(* value outside int, throws (ok = FALSE).                                 *)
(***************************************************************************)
DigitChars == <<"0", "1", "2", "3", "4", "5", "6", "7", "8", "9">>
IsDigit(c) == \E d \in 1..10 : DigitChars[d] = c
DigitVal(c) == (CHOOSE d \in 1..10 : DigitChars[d] = c) - 1

RECURSIVE DigitPrefix(_)
DigitPrefix(s) ==
    IF s # <<>> /\ IsDigit(Head(s)) THEN <<Head(s)>> \o DigitPrefix(Tail(s))
    ELSE <<>>

\* The value of a digit string, or -1 once it exceeds INT_MAX.
RECURSIVE DigitsValue(_, _)
DigitsValue(ds, acc) ==
    IF ds = <<>> THEN acc
    ELSE IF acc > (INT_MAX - DigitVal(Head(ds))) \div 10 THEN -1
    ELSE DigitsValue(Tail(ds), acc * 10 + DigitVal(Head(ds)))

stoi(token) ==
    LET s1 == ltrim(token)
        neg == s1 # <<>> /\ Head(s1) = "-"
        s2 == IF s1 # <<>> /\ Head(s1) \in {"+", "-"} THEN Tail(s1) ELSE s1
        ds == DigitPrefix(s2)
        v == DigitsValue(ds, 0)
    IN  IF ds = <<>> \/ v = -1 THEN [ok |-> FALSE, val |-> 0]
        ELSE [ok |-> TRUE, val |-> IF neg THEN 0 - v ELSE v]

(***************************************************************************)
(* The body of the parsing loops: trim the line, skip it when empty, take  *)
(* the first comma-separated token, trim it, convert it.                   *)
(***************************************************************************)
parse_line(line) ==
    LET t == trim(line)
    IN  IF t = <<>> THEN [ok |-> FALSE, val |-> 0]
        ELSE stoi(trim(getline_comma(t)))

read_all_lines(file) == IF file.exists THEN file.lines ELSE <<>>

RECURSIVE parse_from(_, _)
parse_from(lines, i) ==
    IF i > Len(lines) THEN <<>>
    ELSE LET p == parse_line(lines[i])
         IN  (IF p.ok THEN <<[idx |-> i - 1, age |-> p.val, line |-> lines[i]]>>
              ELSE <<>>) \o parse_from(lines, i + 1)

parse_records(lines) == parse_from(lines, 1)

(***************************************************************************)
(* Messages on stderr and stdout: the text and the paths it names.         *)
(***************************************************************************)
Msg(text, paths) == [text |-> text, paths |-> paths]

(***************************************************************************)
(* write_filtered_files: the extreme ages over the parsed records, the     *)
(* line index of the first record at each extreme, and the three files.    *)
(***************************************************************************)
RECURSIVE max_age_loop(_, _, _)
max_age_loop(records, i, acc) ==
    IF i > Len(records) THEN acc
    ELSE max_age_loop(records, i + 1,
                      IF records[i].age > acc THEN records[i].age ELSE acc)

RECURSIVE min_age_loop(_, _, _)
min_age_loop(records, i, acc) ==
    IF i > Len(records) THEN acc
    ELSE min_age_loop(records, i + 1,
                      IF records[i].age < acc THEN records[i].age ELSE acc)

RECURSIVE index_loop(_, _, _, _)
index_loop(records, i, age, cur) ==
    IF i > Len(records) THEN cur
    ELSE index_loop(records, i + 1, age,
                    IF records[i].age = age /\ cur = -1 THEN records[i].idx
                    ELSE cur)

RECURSIVE last_index_loop(_, _, _, _)
last_index_loop(records, i, age, cur) ==
    IF i > Len(records) THEN cur
    ELSE last_index_loop(records, i + 1, age,
                         IF records[i].age = age THEN records[i].idx ELSE cur)

first_index_last_wins(records, age) == last_index_loop(records, 1, age, -1)

first_index_with_age(records, age) == index_loop(records, 1, age, -1)

RECURSIVE lines_except(_, _, _)
lines_except(lines, i, idx) ==
    IF i > Len(lines) THEN <<>>
    ELSE (IF i - 1 = idx THEN <<>> ELSE <<lines[i]>>)
         \o lines_except(lines, i + 1, idx)

minus_index(lines, idx) == lines_except(lines, 1, idx)

RECURSIVE records_except_age(_, _, _)
records_except_age(records, i, age) ==
    IF i > Len(records) THEN <<>>
    ELSE (IF records[i].age = age THEN <<>> ELSE <<records[i].line>>)
         \o records_except_age(records, i + 1, age)

minus_age26_raw_lines(lines, records) ==
    LET keep(l) == ~(parse_line(l).ok /\ parse_line(l).val = RemovedAge)
    IN  SelectSeq(lines, keep)

minus_age26(lines, records) == records_except_age(records, 1, RemovedAge)

\* ofstream f(path); f << ...; f.close(): a stream that failed to open
\* writes nothing and leaves the file as it was.
ofstream_write(file, writable, content) ==
    IF writable THEN FileOf(content) ELSE file

write_filtered_files(files, locked) ==
    LET lines == read_all_lines(files[InputPath])
        records == parse_records(lines)
        max_age == max_age_loop(records, 1, INT_MIN)
        min_age == min_age_loop(records, 1, INT_MAX)
        oldest_idx == first_index_with_age(records, max_age)
        youngest_idx == first_index_with_age(records, min_age)
        written ==
            [p \in Paths |->
                CASE p = OldestPath ->
                       ofstream_write(files[p], p \notin locked,
                                      minus_index(lines, oldest_idx))
                  [] p = Age26Path ->
                       ofstream_write(files[p], p \notin locked,
                                      minus_age26(lines, records))
                  [] p = YoungestPath ->
                       ofstream_write(files[p], p \notin locked,
                                      minus_index(lines, youngest_idx))
                  [] OTHER -> files[p]]
    IN  IF lines = <<>> THEN
            [files |-> files,
             err |-> <<Msg("Warning: original file empty or not found",
                           <<InputPath>>)>>,
             out |-> <<>>]
        ELSE IF records = <<>> THEN
            [files |-> files,
             err |-> <<Msg("Warning: no parseable records", <<InputPath>>)>>,
             out |-> <<>>]
        ELSE
            [files |-> written,
             err |-> <<>>,
             out |-> <<Msg("Wrote filtered files",
                           <<OldestPath, Age26Path, YoungestPath>>)>>]

(***************************************************************************)
(* The random engine: a stream of uniform values fixed by the seed, read   *)
(* one value per draw at position pos.  A value u stands for u / UDen in   *)
(* [0, 1).                                                                 *)
(***************************************************************************)
Seeds == 0..(NumSeeds - 1)
Uniform(seed, pos) == (seed + (2 * seed + 1) * pos) % UDen

Rat(n, d) == [num |-> n, den |-> d]
ZeroNoise == [branch |-> "zero", scale |-> Rat(0, 1), arg |-> Rat(1, 1)]

\* The engine passed by value: the caller's engine does not advance.
sample_laplace_by_value(scale, engine) ==
    LET u == Uniform(engine.seed, engine.pos)
    IN  [noise |-> IF 2 * u = UDen THEN ZeroNoise
                   ELSE IF 2 * u < UDen
                        THEN [branch |-> "low", scale |-> scale,
                              arg |-> Rat(2 * u, UDen)]
                        ELSE [branch |-> "high", scale |-> scale,
                              arg |-> Rat(2 * (UDen - u), UDen)],
         pos |-> engine.pos,
         rng |-> engine]

\* u == 0.5 gives 0; u < 0.5 gives scale * log(2u); otherwise
\* -scale * log(2(1 - u)).
sample_laplace(scale, engine) ==
    LET u == Uniform(engine.seed, engine.pos)
    IN  [noise |-> IF 2 * u = UDen THEN ZeroNoise
                   ELSE IF 2 * u < UDen
                        THEN [branch |-> "low", scale |-> scale,
                              arg |-> Rat(2 * u, UDen)]
                        ELSE [branch |-> "high", scale |-> scale,
                              arg |-> Rat(2 * (UDen - u), UDen)],
         pos |-> engine.pos,
         rng |-> [engine EXCEPT !.pos = @ + 1]]

(***************************************************************************)
(* run_analysis_on_file.                                                   *)
(***************************************************************************)
RECURSIVE ages_subset_from(_, _)
ages_subset_from(lines, i) ==
    IF i > Len(lines) THEN <<>>
    ELSE LET p == parse_line(lines[i])
         IN  (IF p.ok /\ p.val > AgeThreshold THEN <<p.val>> ELSE <<>>)
             \o ages_subset_from(lines, i + 1)

RECURSIVE sum_loop(_, _, _)
sum_loop(ages, i, acc) ==
    IF i > Len(ages) THEN acc ELSE sum_loop(ages, i + 1, acc + ages[i])

RECURSIVE min_loop(_, _, _)
min_loop(ages, i, acc) ==
    IF i > Len(ages) THEN acc
    ELSE min_loop(ages, i + 1, IF ages[i] < acc THEN ages[i] ELSE acc)

RECURSIVE max_loop(_, _, _)
max_loop(ages, i, acc) ==
    IF i > Len(ages) THEN acc
    ELSE max_loop(ages, i + 1, IF ages[i] > acc THEN ages[i] ELSE acc)

\* The line written for one trial: avg + noise, printed with 10 digits.
noisy_release_without_noise(avg, noise) == [avg |-> avg, noise |-> ZeroNoise]

noisy_release(avg, noise) == [avg |-> avg, noise |-> noise]

RECURSIVE trial_loop(_, _, _, _, _, _, _)
trial_loop(i, trials, avg, scale, engine, written, drawn) ==
    IF i >= trials THEN [rng |-> engine, lines |-> written, draws |-> drawn]
    ELSE LET s == sample_laplace(scale, engine)
         IN  trial_loop(i + 1, trials, avg, scale, s.rng,
                        Append(written, noisy_release(avg, s.noise)),
                        Append(drawn, [pos |-> s.pos, scale |-> scale,
                                       noise |-> s.noise]))

\* A failing return reached with the output stream already opened.
analysis_failure_after_open(outfile, engine, text, path) ==
    [ret |-> FALSE, outfile |-> FileOf(<<>>), rng |-> engine,
     err |-> <<Msg(text, <<path>>)>>, out |-> <<>>, draws |-> <<>>]

\* cerr << ...; return false;
analysis_failure(outfile, engine, text, path) ==
    [ret |-> FALSE, outfile |-> outfile, rng |-> engine,
     err |-> <<Msg(text, <<path>>)>>, out |-> <<>>, draws |-> <<>>]

run_analysis_on_file(input_path, infile, output_path, outfile, writable, epsilon, ntrials, engine) ==
    LET ages == ages_subset_from(infile.lines, 1)
        sum == sum_loop(ages, 1, 0)
        m == Len(ages)
        min_age == min_loop(ages, 1, INT_MAX)
        max_age == max_loop(ages, 1, INT_MIN)
        avg == Rat(sum, m)
        sensitivity == Rat(max_age - min_age, IF m > 1 THEN m ELSE 1)
        scale == Rat(sensitivity.num * epsilon.den,
                     sensitivity.den * epsilon.num)
        loop == trial_loop(0, ntrials, avg, scale, engine, <<>>, <<>>)
    IN  IF ~infile.exists THEN
            analysis_failure(outfile, engine, "Failed to open input file",
                             input_path)
        ELSE IF ages = <<>> THEN
            analysis_failure(outfile, engine,
                             "No records with age > 25 found in input",
                             input_path)
        ELSE IF ~writable THEN
            analysis_failure(outfile, engine, "Failed to open output file",
                             output_path)
        ELSE
            [ret |-> TRUE, outfile |-> FileOf(loop.lines), rng |-> loop.rng,
             err |-> <<>>,
             out |-> <<Msg("[ANALYSIS]", <<input_path, output_path>>)>>,
             draws |-> loop.draws]

(***************************************************************************)
(* The state: the files of the data directory, the paths that cannot be    *)
(* opened for writing, the trials parameter, the position of main, the     *)
(* engine, what the process printed and its exit status.  calls, draws     *)
(* and seedings record the calls made, the samples drawn and the number    *)
(* of times the engine was seeded in the current run.                      *)
(***************************************************************************)
VARIABLES files, locked, trials, pc, rng, calls, draws, seedings, err, out,
          exitStatus, runs

vars == <<files, locked, trials, pc, rng, calls, draws, seedings, err, out,
          exitStatus, runs>>

Epsilon == Rat(EpsilonNum, EpsilonDen)

(***************************************************************************)
(* Input lines: records, a second spelling of age 30, a padded age 26, an  *)
(* age below the threshold, a blank line and a malformed line.             *)
(***************************************************************************)
Line30 == <<"3", "0", ",", "x">>
LinePlus30 == <<"+", "3", "0">>
Line26 == <<" ", "2", "6", " ", ",", "w">>
Line20 == <<"2", "0", ",", "z">>
Line40 == <<"4", "0", ",", "y">>
LineBlank == <<" ">>
LineBad == <<"x", ",", "5">>
LinePool == {Line30, LinePlus30, Line26, Line20, LineBlank, LineBad}

RECURSIVE SeqsUpTo(_, _)
SeqsUpTo(S, n) ==
    IF n = 0 THEN {<<>>}
    ELSE LET shorter == SeqsUpTo(S, n - 1)
         IN  shorter \cup {Append(q, x) : q \in shorter, x \in S}

Inputs == {NoFile} \cup {FileOf(ls) : ls \in SeqsUpTo(LinePool, MaxLines)}
Locks == {{}} \cup {{p} : p \in VariantPaths \cup OutputPaths}

BuildInputs ==
    {NoFile} \cup {FileOf(ls) : ls \in SeqsUpTo(LinePool, MaxBuildLines)}
BuildLocks == {{}} \cup {{p} : p \in VariantPaths}

RunInputs ==
    {NoFile, FileOf(<<LineBad>>), FileOf(<<Line30>>),
     FileOf(<<Line20, Line26, Line40>>)}
RunLocks == {{}, {OldestPath}, {AnalysisOutputs[1]}}

NotSeeded == [seeded |-> FALSE, seed |-> 0, pos |-> 0]

InitWith(input, lock, n) ==
    /\ files = [p \in Paths |-> IF p = InputPath THEN input ELSE NoFile]
    /\ locked = lock
    /\ trials = n
    /\ pc = "start"
    /\ rng = NotSeeded
    /\ calls = <<>>
    /\ draws = <<>>
    /\ seedings = 0
    /\ err = <<>>
    /\ out = <<>>
    /\ exitStatus = <<>>
    /\ runs = 1

Init == \E input \in Inputs, lock \in Locks, n \in 0..MaxTrials :
            InitWith(input, lock, n)

InitBuild == \E input \in BuildInputs, lock \in BuildLocks :
                 InitWith(input, lock, MaxTrials)

InitRuns == \E input \in RunInputs, lock \in RunLocks, n \in 0..MaxTrials :
                InitWith(input, lock, n)

(***************************************************************************)
(* main up to the call of write_filtered_files: --help prints the usage    *)
(* and returns 0; a data directory that can neither be found nor created   *)
(* returns 2.                                                              *)
(***************************************************************************)
Start ==
    /\ pc = "start"
    /\ \E mode \in {"help", "nodir", "ok"} :
          /\ pc' = IF mode = "ok" THEN "build" ELSE "exited"
          /\ exitStatus' = CASE mode = "help" -> <<ExitOk>>
                             [] mode = "nodir" -> <<ExitNoDir>>
                             [] OTHER -> <<>>
          /\ err' = IF mode = "nodir"
                    THEN Append(err, Msg("Failed to create data dir", <<>>))
                    ELSE err
          /\ out' = IF mode = "help" THEN Append(out, Msg("Usage", <<>>))
                    ELSE out
    /\ UNCHANGED <<files, locked, trials, rng, calls, draws, seedings, runs>>

Call(fn, input, output, read, ret, text, first) ==
    [fn |-> fn, input |-> input, output |-> output, read |-> read,
     ret |-> ret, text |-> text, first |-> first]

BuildVariants ==
    /\ pc = "build"
    /\ LET r == write_filtered_files(files, locked)
       IN  /\ files' = r.files
           /\ err' = err \o r.err
           /\ out' = out \o r.out
           /\ calls' = Append(calls,
                  Call("write_filtered_files", InputPath, "",
                       files[InputPath], TRUE,
                       IF r.err = <<>> THEN "" ELSE r.err[1].text, 0))
    /\ pc' = "seed"
    /\ UNCHANGED <<locked, trials, rng, draws, seedings, exitStatus, runs>>

\* std::random_device rd; std::mt19937_64 rng(rd());
SeedRng ==
    /\ pc = "seed"
    /\ \E s \in Seeds : rng' = [seeded |-> TRUE, seed |-> s, pos |-> 0]
    /\ seedings' = seedings + 1
    /\ pc' = "run1"
    /\ UNCHANGED <<files, locked, trials, calls, draws, err, out, exitStatus,
                   runs>>

AnalysisPcs == <<"run1", "run2", "run3", "run4">>

\* main stops at the first analysis that fails.
next_location_stop_on_failure(k, ret) ==
    IF k < 4 /\ ret THEN AnalysisPcs[k + 1] ELSE "return"

\* The return value of run_analysis_on_file is discarded.
next_location(k, ret) == IF k < 4 THEN AnalysisPcs[k + 1] ELSE "return"

RunAnalysis ==
    \E k \in 1..4 :
        /\ pc = AnalysisPcs[k]
        /\ LET inp == AnalysisInputs[k]
               outp == AnalysisOutputs[k]
               r == run_analysis_on_file(inp, files[inp], outp, files[outp],
                                         outp \notin locked, Epsilon, trials,
                                         rng)
           IN  /\ files' = [files EXCEPT ![outp] = r.outfile]
               /\ rng' = r.rng
               /\ err' = err \o r.err
               /\ out' = out \o r.out
               /\ draws' = draws \o [i \in 1..Len(r.draws) |->
                                        [call |-> k, seed |-> rng.seed,
                                         pos |-> r.draws[i].pos,
                                         scale |-> r.draws[i].scale,
                                         noise |-> r.draws[i].noise]]
               /\ calls' = Append(calls,
                      Call("run_analysis_on_file", inp, outp, files[inp],
                           r.ret,
                           IF r.err = <<>> THEN "" ELSE r.err[1].text,
                           Len(draws)))
               /\ pc' = next_location(k, r.ret)
        /\ UNCHANGED <<locked, trials, seedings, exitStatus, runs>>

\* return 0;
Return ==
    /\ pc = "return"
    /\ pc' = "exited"
    /\ exitStatus' = <<ExitOk>>
    /\ UNCHANGED <<files, locked, trials, rng, calls, draws, seedings, err,
                   out, runs>>

(***************************************************************************)
(* The program is started again on the same data directory: the files it   *)
(* left are still there, the input and the permissions may have changed.   *)
(***************************************************************************)
NextRun ==
    /\ pc = "exited"
    /\ runs < MaxRuns
    /\ \E input \in RunInputs, lock \in RunLocks :
          /\ files' = [files EXCEPT ![InputPath] = input]
          /\ locked' = lock
    /\ pc' = "start"
    /\ rng' = NotSeeded
    /\ calls' = <<>>
    /\ draws' = <<>>
    /\ seedings' = 0
    /\ err' = <<>>
    /\ out' = <<>>
    /\ exitStatus' = <<>>
    /\ runs' = runs + 1
    /\ UNCHANGED trials

Next == Start \/ BuildVariants \/ SeedRng \/ RunAnalysis \/ Return

NextBuild == Start \/ BuildVariants

NextRuns == Next \/ NextRun

Spec == Init /\ [][Next]_vars

SpecBuild == InitBuild /\ [][NextBuild]_vars

SpecRuns == InitRuns /\ [][NextRuns]_vars

(***************************************************************************)
(* Reference notions used to state the properties.                         *)
(***************************************************************************)
Original == files[InputPath].lines
Parsed(lines, i) == parse_line(lines[i]).ok
AgeAt(lines, i) == parse_line(lines[i]).val
HasRecords(lines) == \E i \in 1..Len(lines) : Parsed(lines, i)
RemoveAt(lines, k) == SubSeq(lines, 1, k - 1) \o SubSeq(lines, k + 1, Len(lines))
Built == calls # <<>> /\ calls[1].fn = "write_filtered_files"
AnalysisCalls == {c \in 1..Len(calls) : calls[c].fn = "run_analysis_on_file"}

\* k is the first record, in file order, whose age is the largest
\* (sign = 1) or the smallest (sign = -1) over all parsed records.
FirstExtreme(lines, k, sign) ==
    /\ Parsed(lines, k)
    /\ \A j \in 1..Len(lines) :
          Parsed(lines, j) => sign * AgeAt(lines, j) <= sign * AgeAt(lines, k)
    /\ \A j \in 1..(k - 1) :
          Parsed(lines, j) => AgeAt(lines, j) # AgeAt(lines, k)

OneLineOmitted(path, sign) ==
    \E k \in 1..Len(Original) :
        /\ FirstExtreme(Original, k, sign)
        /\ files[path] = FileOf(RemoveAt(Original, k))

\* C1: once the builder has run on an input with at least one parsed
\* record, MinusOldest (MinusYoungest) is the raw line sequence with exactly
\* one line omitted, the first record in file order whose age is the maximum
\* (minimum) over the parsed records; every other raw line is kept, in order.
C1_FirstExtremeOmitted ==
    (Built /\ HasRecords(Original)) =>
        /\ OldestPath \notin locked => OneLineOmitted(OldestPath, 1)
        /\ YoungestPath \notin locked => OneLineOmitted(YoungestPath, -1)

\* The case of C1: a tie for the maximum between two records of different
\* text, beside a line the parser drops, with both variants written.
C1_Witness ==
    /\ Built
    /\ files[OldestPath].exists /\ files[YoungestPath].exists
    /\ \E i, j, b \in 1..Len(Original) :
          /\ i < j
          /\ FirstExtreme(Original, i, 1)
          /\ Parsed(Original, j) /\ AgeAt(Original, j) = AgeAt(Original, i)
          /\ Original[i] # Original[j]
          /\ ~Parsed(Original, b)
          /\ files[OldestPath].lines = RemoveAt(Original, i)

NotAge26(line) == parse_line(line).ok /\ parse_line(line).val # RemovedAge

\* C2: once the builder has run on an input with at least one parsed
\* record, MinusAge26 is exactly the raw text of the parsed records whose age
\* is not 26, in file order: no age-26 record and no line the parser dropped.
C2_Age26Removed ==
    (Built /\ HasRecords(Original) /\ Age26Path \notin locked) =>
        /\ files[Age26Path] = FileOf(SelectSeq(Original, NotAge26))
        /\ \A i \in 1..Len(files[Age26Path].lines) :
              NotAge26(files[Age26Path].lines[i])

\* The case of C2: the input holds a record of age 26, a record of another
\* age and a line the parser drops, and MinusAge26 was written.
C2_Witness ==
    /\ Built
    /\ files[Age26Path].exists /\ files[Age26Path].lines # <<>>
    /\ \E i, j, b \in 1..Len(Original) :
          /\ Parsed(Original, i) /\ AgeAt(Original, i) = RemovedAge
          /\ Parsed(Original, j) /\ AgeAt(Original, j) # RemovedAge
          /\ ~Parsed(Original, b)

IsQualifying(line) == parse_line(line).ok /\ parse_line(line).val > AgeThreshold
Qualifying(lines) == SelectSeq(lines, IsQualifying)

RECURSIVE SumAges(_)
SumAges(ls) == IF ls = <<>> THEN 0 ELSE parse_line(Head(ls)).val + SumAges(Tail(ls))

TrueAverage(lines) == Rat(SumAges(Qualifying(lines)), Len(Qualifying(lines)))
DrawsOf(c) == SelectSeq(draws, LAMBDA d : d.call = c - 1)

\* C3: an analysis whose input is readable and holds a record of age > 25
\* and whose output is writable succeeds and writes exactly trials releases;
\* the i-th release is the true average of the age > 25 subset plus the i-th
\* noise sample drawn during that call.
C3_TrialsReleases ==
    \A c \in AnalysisCalls :
        (/\ calls[c].read.exists
         /\ Qualifying(calls[c].read.lines) # <<>>
         /\ calls[c].output \notin locked) =>
            LET drawn == DrawsOf(c)
                avg == TrueAverage(calls[c].read.lines)
            IN  /\ calls[c].ret
                /\ files[calls[c].output].exists
                /\ Len(drawn) = trials
                /\ files[calls[c].output].lines =
                      [i \in 1..trials |-> [avg |-> avg, noise |-> drawn[i].noise]]
                /\ \A i \in 1..trials : drawn[i].pos = calls[c].first + i - 1

\* The case of C3: a successful analysis of at least two trials whose
\* releases carry a noise that is not zero.
C3_Witness ==
    \E c \in AnalysisCalls :
        /\ calls[c].ret
        /\ trials >= 2
        /\ Len(files[calls[c].output].lines) = trials
        /\ \E i \in 1..trials :
              /\ files[calls[c].output].lines[i].noise.branch # "zero"
              /\ files[calls[c].output].lines[i].noise.scale.num > 0

ExpectedFn ==
    <<"write_filtered_files", "run_analysis_on_file", "run_analysis_on_file",
      "run_analysis_on_file", "run_analysis_on_file">>
ExpectedInput == <<InputPath>> \o AnalysisInputs

\* C4: a run that reaches the pipeline builds the variants once, then
\* attempts the analyses of Original, MinusOldest, MinusAge26 and
\* MinusYoungest in that order; after a failed analysis the next one is
\* still attempted, and the run ends only after all four.
C4_FixedOrder ==
    /\ Len(calls) <= 5
    /\ \A i \in 1..Len(calls) :
          calls[i].fn = ExpectedFn[i] /\ calls[i].input = ExpectedInput[i]
    /\ pc \in {"seed", "run1", "run2", "run3", "run4", "return"} => Built
    /\ (Built /\ Len(calls) = 1) => pc \in {"seed", "run1"}
    /\ (Built /\ Len(calls) \in 2..4) => pc = AnalysisPcs[Len(calls)]
    /\ (Built /\ pc \in {"return", "exited"}) => Len(calls) = 5

\* The case of C4: a finished run whose first analysis failed and whose
\* last analysis succeeded.
C4_Witness ==
    /\ pc = "exited"
    /\ Len(calls) = 5
    /\ ~calls[2].ret
    /\ calls[5].ret

\* C5: the result of run_analysis_on_file tells the three failure classes
\* and success apart, and so does the exit status of the process.
C5_FailureClassExposed ==
    /\ \A c, d \in AnalysisCalls :
          calls[c].text # calls[d].text => calls[c].ret # calls[d].ret
    /\ (pc = "exited" /\ \E c \in AnalysisCalls : ~calls[c].ret) =>
          exitStatus # <<ExitOk>>

ExpectedVariant(path, lines) ==
    CASE path = OldestPath ->
           RemoveAt(lines, CHOOSE k \in 1..Len(lines) : FirstExtreme(lines, k, 1))
      [] path = YoungestPath ->
           RemoveAt(lines, CHOOSE k \in 1..Len(lines) : FirstExtreme(lines, k, -1))
      [] OTHER -> SelectSeq(lines, NotAge26)

\* C6: whatever variant content an analysis reads was derived from the
\* Original input of the same run; no analysis reads variant content left
\* behind by an earlier run.
C6_VariantsOfThisRun ==
    \A c \in AnalysisCalls :
        (calls[c].input \in VariantPaths /\ calls[c].read.exists) =>
            /\ HasRecords(Original)
            /\ calls[c].read.lines = ExpectedVariant(calls[c].input, Original)

\* C7: the engine is seeded exactly once in a run, before the first
\* analysis; the samples of all analyses read the positions 0, 1, 2, ... of
\* that one stream, each position once, a later analysis after an earlier.
C7_OneStream ==
    /\ seedings <= 1
    /\ AnalysisCalls # {} => (seedings = 1 /\ rng.seeded)
    /\ rng.pos = Len(draws)
    /\ \A i \in 1..Len(draws) :
          draws[i].pos = i - 1 /\ draws[i].seed = rng.seed
    /\ \A i, j \in 1..Len(draws) :
          (i < j) => (draws[i].pos < draws[j].pos /\ draws[i].call <= draws[j].call)

\* The case of C7: samples drawn by the first and by the last analysis.
C7_Witness ==
    /\ Len(draws) >= 4
    /\ \E i, j \in 1..Len(draws) : draws[i].call = 1 /\ draws[j].call = 4

Signalled(p) == \E i \in 1..Len(err) : \E k \in 1..Len(err[i].paths) : err[i].paths[k] = p
ReportedWritten(p) ==
    \E i \in 1..Len(out) :
        /\ out[i].text = "Wrote filtered files"
        /\ \E k \in 1..Len(out[i].paths) : out[i].paths[k] = p

\* C8: every failure condition is signalled; a variant file that cannot be
\* opened for writing is signalled and is not reported as written.
C8_FailuresSignalled ==
    /\ \A c \in AnalysisCalls : ~calls[c].ret => calls[c].text # ""
    /\ (Built /\ ~HasRecords(Original)) => Signalled(InputPath)
    /\ (Built /\ HasRecords(Original)) =>
          \A p \in VariantPaths \cap locked :
              Signalled(p) /\ ~ReportedWritten(p)

\* C9: every scale passed to sample_laplace is strictly positive.
C9_ScalePositive ==
    \A i \in 1..Len(draws) : draws[i].scale.num > 0 /\ draws[i].scale.den > 0

FailedAnalysisStep ==
    /\ Len(calls') = Len(calls) + 1
    /\ calls'[Len(calls')].fn = "run_analysis_on_file"
    /\ ~calls'[Len(calls')].ret

\* C10: a failing call of run_analysis_on_file changes no file, its output
\* artifact included, and leaves the engine where it was.
C10_FailureChangesNothing ==
    [][FailedAnalysisStep => (files' = files /\ rng' = rng /\ draws' = draws)]_vars

\* The case of C10: an analysis has just failed, after an earlier analysis
\* of the same run drew samples, while its output artifact held the
\* releases of an earlier run.
C10_Witness ==
    /\ calls # <<>>
    /\ calls[Len(calls)].fn = "run_analysis_on_file"
    /\ ~calls[Len(calls)].ret
    /\ files[calls[Len(calls)].output].exists
    /\ files[calls[Len(calls)].output].lines # <<>>
    /\ rng.pos > 0

====
